---- MODULE Spec2Model ----
(***************************************************************************)
(* Model of Foam::phaseSystem                                              *)
(* (applications/solvers/multiphase/reactingEulerFoam/phaseSystems/        *)
(*  phaseSystem/phaseSystem.C).                                            *)
(*                                                                         *)
(* The constructor is modelled step by step (pc is its position), every    *)
(* member function as one atomic action.  Labels are 1-based here          *)
(* (phaseModels_[1] is the source's phaseModels_[0]).  A field is          *)
(* represented by its value at one location, field arithmetic being        *)
(* pointwise; a phase fraction a stands for a/Unit.  A vector is           *)
(* represented by one of its components.                                   *)
(***************************************************************************)
EXTENDS Integers, Sequences, FiniteSets

VARIABLES
    pc,                          \* position of the constructor in ctorSequence
    ctorLog,                     \* constructor steps completed, in order
    phaseModels_,                \* the phase list (sequence of phase records)
    movingPhaseModels_,          \* views: sequences of labels into phaseModels_,
    stationaryPhaseModels_,      \*        0 is a slot that was never set
    anisothermalPhaseModels_,
    multiComponentPhaseModels_,
    phi_,                        \* <<>> before initialisation, <<value>> after
    dpdt_,                       \* <<>> before initialisation, <<value>> after
    blendingMethods_,            \* set of blending method names
    phasePairs_,                 \* set of [key, pair]
    surfaceTensionModels_,       \* set of [key, model]
    aspectRatioModels_,          \* set of [key, model]
    requested,                   \* history: keys generatePairs has handled
    failedKey,                   \* <<>> or <<key>>: the key that raised the fatal error
    ret                          \* the last call: its inputs, its trace, its result

vars == <<pc, ctorLog, phaseModels_, movingPhaseModels_, stationaryPhaseModels_,
          anisothermalPhaseModels_, multiComponentPhaseModels_, phi_, dpdt_,
          blendingMethods_, phasePairs_, surfaceTensionModels_,
          aspectRatioModels_, requested, failedKey, ret>>

views == <<movingPhaseModels_, stationaryPhaseModels_,
           anisothermalPhaseModels_, multiComponentPhaseModels_>>

tables == <<phasePairs_, surfaceTensionModels_, aspectRatioModels_,
            requested, failedKey>>

----------------------------------------------------------------------------
(* Bounds and input domains *)

MaxPhases == 3

MaxDictEntries == 2

NCells == 2

Unit == 10

AlphaVals == {0, 3, 6, 7}

RhoVals == {1, 1000}

UVals == {-2, 3}

FvVals == {1}

DmdtVals == {10}

ModelVals == {7}

PatchSizes == <<2, 0>>

PFields == {[cur |-> 100, old |-> 100], [cur |-> 105, old |-> 100]}

\* the phase names pair keys are written with; KnownNames are phases of the
\* systems the pair dictionaries are tried on, the other name is of no phase
KnownNames == {1, 2}

Names == KnownNames \cup {3}

----------------------------------------------------------------------------
(* Rational arithmetic of the field values *)

Abs(x) == IF x < 0 THEN -x ELSE x

RECURSIVE GCD(_, _)
GCD(a, b) == IF b = 0 THEN a ELSE GCD(b, a % b)

\* n/d in lowest terms with d >= 0; d = 0 is the result of a division by zero
Q(n, d) ==
    LET g == GCD(Abs(n), Abs(d))
        s == IF d < 0 THEN -1 ELSE 1
    IN  IF g = 0 THEN [n |-> 0, d |-> 0]
        ELSE [n |-> s * (n \div g), d |-> s * (d \div g)]

QInt(i) == Q(i, 1)

QAdd(x, y) == Q(x.n * y.d + y.n * x.d, x.d * y.d)

QMul(x, y) == Q(x.n * y.n, x.d * y.d)

QDiv(x, y) == Q(x.n * y.d, x.d * y.n)

\* the fraction field of a phase: a stands for a/Unit
Alpha(a) == Q(a, Unit)

----------------------------------------------------------------------------
(* Phases *)

MkPhase(i, f) ==
    [name |-> i, index |-> i, stationary |-> f.stationary,
     isothermal |-> f.isothermal, pure |-> f.pure,
     incompressible |-> f.incompressible, dpdt |-> f.dpdt]

Flags(S, I, P, C, D) ==
    [stationary : S, isothermal : I, pure : P, incompressible : C, dpdt : D]

PhaseLists(F) ==
    UNION {{[i \in 1..n |-> MkPhase(i, fs[i])] : fs \in [1..n -> F]} :
             n \in 1..MaxPhases}

\* every classification, all phases incompressible and requesting dpdt
CtorPhaseLists ==
    PhaseLists(Flags(BOOLEAN, BOOLEAN, BOOLEAN, {TRUE}, {TRUE}))

\* moving and stationary phases
MixPhaseLists ==
    PhaseLists(Flags(BOOLEAN, {TRUE}, {TRUE}, {TRUE}, {FALSE}))

\* moving and stationary phases, compressible or not, requesting dpdt or not
QueryPhaseLists ==
    PhaseLists(Flags(BOOLEAN, {TRUE}, {TRUE}, BOOLEAN, BOOLEAN))

\* the one system whose phases are those named KnownNames
PairPhaseLists ==
    {[i \in KnownNames |->
        MkPhase(i, [stationary |-> FALSE, isothermal |-> TRUE, pure |-> TRUE,
                    incompressible |-> TRUE, dpdt |-> FALSE])]}

----------------------------------------------------------------------------
(* phasePairKey and the pair-indexed tables *)

Keys(N) ==
    {k \in [first : N, second : N, ordered : BOOLEAN] : k.first # k.second}

\* phasePairKey equality: direction matters for ordered keys only
KeyEq(k1, k2) ==
    /\ k1.ordered = k2.ordered
    /\ \/ k1.first = k2.first /\ k1.second = k2.second
       \/ ~k1.ordered /\ k1.first = k2.second /\ k1.second = k2.first

\* HashTable::found
found(table, key) == \E e \in table : KeyEq(e.key, key)

\* HashTable::operator[] const, used only where found(table, key) holds
at(table, key) == CHOOSE e \in table : KeyEq(e.key, key)

\* phaseModels_[word]: the label of the phase of that name, 0 if there is none
\* (the lookup then raises a fatal error)
lookupPhase(pm, name) ==
    IF \E i \in 1..Len(pm) : pm[i].name = name
    THEN CHOOSE i \in 1..Len(pm) : pm[i].name = name
    ELSE 0

\* one pass of the loop of generatePairs over entry `key`;
\* g = [pairs, requested, failed]
\* seeded fault: the phase lookups cannot fail
generatePairsStepNoLookupCheck(pm, g, key) ==
    IF found(g.pairs, key)
    THEN [g EXCEPT !.requested = Append(@, key)]
    ELSE [g EXCEPT
            !.pairs = @ \cup
               {[key |-> key,
                 pair |-> [id |-> Cardinality(g.pairs) + 1,
                           ordered |-> key.ordered,
                           phase1 |-> lookupPhase(pm, key.first),
                           phase2 |-> lookupPhase(pm, key.second)]]},
            !.requested = Append(@, key)]

\* seeded fault: a key already registered gets a new Pair
generatePairsStepReplace(pm, g, key) ==
    IF lookupPhase(pm, key.first) = 0 \/ lookupPhase(pm, key.second) = 0
    THEN [g EXCEPT !.failed = <<key>>]
    ELSE [g EXCEPT
            !.pairs = {e \in @ : ~KeyEq(e.key, key)} \cup
               {[key |-> key,
                 pair |-> [id |-> Len(g.requested) + 1,
                           ordered |-> key.ordered,
                           phase1 |-> lookupPhase(pm, key.first),
                           phase2 |-> lookupPhase(pm, key.second)]]},
            !.requested = Append(@, key)]

generatePairsStep(pm, g, key) ==
    IF found(g.pairs, key)
    THEN [g EXCEPT !.requested = Append(@, key)]
    ELSE IF lookupPhase(pm, key.first) = 0 \/ lookupPhase(pm, key.second) = 0
    THEN [g EXCEPT !.failed = <<key>>]
    ELSE [g EXCEPT
            !.pairs = @ \cup
               {[key |-> key,
                 pair |-> [id |-> Cardinality(g.pairs) + 1,
                           ordered |-> key.ordered,
                           phase1 |-> lookupPhase(pm, key.first),
                           phase2 |-> lookupPhase(pm, key.second)]]},
            !.requested = Append(@, key)]

\* generatePairs(modelDicts): the entries in the table's iteration order;
\* the fatal error ends the loop
RECURSIVE generatePairs(_, _, _, _)
generatePairs(pm, g, modelDicts, i) ==
    IF i > Len(modelDicts) \/ g.failed # <<>> THEN g
    ELSE generatePairs(pm, generatePairsStep(pm, g, modelDicts[i].key),
                       modelDicts, i + 1)

\* createSubModels(modelDicts, models): one model per entry, built on the
\* registered pair
createSubModels(pairs, models, modelDicts) ==
    models \cup
      {[key |-> modelDicts[i].key,
        model |-> [pair |-> at(pairs, modelDicts[i].key).pair.id,
                   value |-> modelDicts[i].value]] : i \in 1..Len(modelDicts)}

\* a dictTable: at most MaxDictEntries entries, no two with equal keys, in
\* any iteration order
DictTables(N) ==
    {d \in UNION {[1..n -> [key : Keys(N), value : ModelVals]] :
                    n \in 0..MaxDictEntries} :
       \A i, j \in 1..Len(d) : i # j => ~KeyEq(d[i].key, d[j].key)}

NoDicts == {<<>>}

----------------------------------------------------------------------------
(* The constructor's computations *)

\* the constructor's steps in the order it performs them: the member
\* initialisers phaseModels_, phi_, dpdt_ (in the order of the initialiser
\* list), then the body: Groupings, blending methods, sub-models, kinematics
\* seeded fault: the views are filled before phi_ and dpdt_
ctorSequenceGroupingsFirst ==
    <<"phases", "groupings", "phi", "dpdt", "blending", "surfaceTension",
      "aspectRatio", "kinematics">>

ctorSequence ==
    <<"phases", "phi", "dpdt", "groupings", "blending", "surfaceTension",
      "aspectRatio", "kinematics">>

\* fvc::interpolate on the face between two cells: linear, midway
interpolate(f) == QDiv(QAdd(Alpha(f.own), Alpha(f.nei)), QInt(2))

calcPhiTerm(f) == QMul(interpolate(f), QInt(f.phi))

RECURSIVE calcPhiLoop(_, _, _)
calcPhiLoop(fields, phasei, tmpPhi) ==
    IF phasei > Len(fields) THEN tmpPhi
    ELSE calcPhiLoop(fields, phasei + 1,
                     QAdd(tmpPhi, calcPhiTerm(fields[phasei])))

\* seeded fault: the loop over the other phases is missing
calcPhiFirstOnly(fields) == calcPhiTerm(fields[1])

calcPhi(fields) == calcPhiLoop(fields, 2, calcPhiTerm(fields[1]))

\* first pass of Groupings: the number of phases selected
RECURSIVE countLoop(_, _)
countLoop(sel, phasei) ==
    IF phasei > Len(sel) THEN 0
    ELSE (IF sel[phasei] THEN 1 ELSE 0) + countLoop(sel, phasei + 1)

\* PtrList::resize from empty: n slots, none set
resize(n) == [i \in 1..n |-> 0]

\* second pass of Groupings: view.set(slot++, &phase) for the phases selected
RECURSIVE setLoop(_, _, _, _)
setLoop(view, sel, phasei, slot) ==
    IF phasei > Len(sel) THEN view
    ELSE IF sel[phasei]
         THEN setLoop([view EXCEPT ![slot] = phasei], sel, phasei + 1, slot + 1)
         ELSE setLoop(view, sel, phasei + 1, slot)

grouping(sel) == setLoop(resize(countLoop(sel, 1)), sel, 1, 1)

\* seeded fault: the moving and stationary counts are swapped
GroupingsSwappedCount(pm) ==
    [moving |->
       setLoop(resize(countLoop([i \in 1..Len(pm) |-> pm[i].stationary], 1)),
               [i \in 1..Len(pm) |-> ~pm[i].stationary], 1, 1),
     stationary |->
       setLoop(resize(countLoop([i \in 1..Len(pm) |-> ~pm[i].stationary], 1)),
               [i \in 1..Len(pm) |-> pm[i].stationary], 1, 1),
     anisothermal |-> grouping([i \in 1..Len(pm) |-> ~pm[i].isothermal]),
     multiComponent |-> grouping([i \in 1..Len(pm) |-> ~pm[i].pure])]

Groupings(pm) ==
    [moving |-> grouping([i \in 1..Len(pm) |-> ~pm[i].stationary]),
     stationary |-> grouping([i \in 1..Len(pm) |-> pm[i].stationary]),
     anisothermal |-> grouping([i \in 1..Len(pm) |-> ~pm[i].isothermal]),
     multiComponent |-> grouping([i \in 1..Len(pm) |-> ~pm[i].pure])]

\* generatePairsAndSubModels(modelName, models)
generatePairsAndSubModels(pm, pairs, req, models, modelDicts) ==
    LET g == generatePairs(pm, [pairs |-> pairs, requested |-> req,
                                failed |-> <<>>], modelDicts, 1)
    IN  [pairs |-> g.pairs, requested |-> g.requested, failed |-> g.failed,
         models |-> IF g.failed = <<>>
                    THEN createSubModels(g.pairs, models, modelDicts)
                    ELSE models]

----------------------------------------------------------------------------
(* Member functions *)

\* fvc::ddt of a field with its old-time value, per unit time step
ddt(f) == f.cur - f.old

\* one pass of the loop of correctKinematics; k = [log, updateDpdt]
\* seeded fault: the hooks stop at the first request
kinStepSkipAfterRequest(pm, k, phasei) ==
    IF k.updateDpdt THEN k
    ELSE [log |-> Append(k.log, [call |-> "correctKinematics", phase |-> phasei]),
          updateDpdt |-> pm[phasei].dpdt]

kinStep(pm, k, phasei) ==
    [log |-> Append(k.log, [call |-> "correctKinematics", phase |-> phasei]),
     updateDpdt |-> k.updateDpdt \/ pm[phasei].dpdt]

RECURSIVE kinLoop(_, _, _)
kinLoop(pm, k, phasei) ==
    IF phasei > Len(pm) THEN k
    ELSE kinLoop(pm, kinStep(pm, k, phasei), phasei + 1)

\* correctKinematics(): the trace of calls and the new dpdt_
correctKinematics(pm, p, dpdt) ==
    LET k == kinLoop(pm, [log |-> <<>>, updateDpdt |-> FALSE], 1)
    IN  IF k.updateDpdt
        THEN [log |-> Append(k.log, [call |-> "ddt", phase |-> 1]),
              dpdt |-> <<ddt(p[1])>>]
        ELSE [log |-> k.log, dpdt |-> dpdt]

\* the loops of rho() and U() over the moving view; fld[i] are the fields of
\* phase i, q names the quantity
RECURSIVE sumLoop(_, _, _, _, _)
sumLoop(mv, fld, q, movingPhasei, acc) ==
    IF movingPhasei > Len(mv) THEN acc
    ELSE sumLoop(mv, fld, q, movingPhasei + 1,
                 QAdd(acc, QMul(Alpha(fld[mv[movingPhasei]].alpha),
                                QInt(fld[mv[movingPhasei]][q]))))

RECURSIVE sumAlphaLoop(_, _, _, _)
sumAlphaLoop(mv, fld, movingPhasei, acc) ==
    IF movingPhasei > Len(mv) THEN acc
    ELSE sumAlphaLoop(mv, fld, movingPhasei + 1,
                      QAdd(acc, Alpha(fld[mv[movingPhasei]].alpha)))

\* seeded fault: the sum is never renormalised
mixtureNoRenormalise(mv, st, fld, q) ==
    sumLoop(mv, fld, q, 2, QMul(Alpha(fld[mv[1]].alpha), QInt(fld[mv[1]][q])))

mixture(mv, st, fld, q) ==
    LET sum == sumLoop(mv, fld, q, 2,
                       QMul(Alpha(fld[mv[1]].alpha), QInt(fld[mv[1]][q])))
    IN  IF st = <<>> THEN sum
        ELSE QDiv(sum, sumAlphaLoop(mv, fld, 2, Alpha(fld[mv[1]].alpha)))

rho(mv, st, fld) == mixture(mv, st, fld, "rho")

U(mv, st, fld) == mixture(mv, st, fld, "U")

\* a field over the cells, a field over the faces of a patch
volField(v) == [c \in 1..NCells |-> v]

patchField(patchi, v) == [f \in 1..PatchSizes[patchi] |-> v]

\* seeded fault: the default of sigma is used for E
EDefaultZero(models, key) ==
    IF found(models, key) THEN volField(at(models, key).model.value)
    ELSE volField(0)

E(models, key) ==
    IF found(models, key) THEN volField(at(models, key).model.value)
    ELSE volField(1)

\* seeded fault: the configured model is ignored
sigmaNoDelegate(models, key) == volField(0)

sigma(models, key) ==
    IF found(models, key) THEN volField(at(models, key).model.value)
    ELSE volField(0)

sigmaPatch(models, key, patchi) ==
    IF found(models, key) THEN patchField(patchi, at(models, key).model.value)
    ELSE patchField(patchi, 0)

\* dmdts(): one slot per phase, none set (<<>> is an unset slot, <<v>> a set one)
dmdts(pm) == [i \in 1..Len(pm) |-> <<>>]

\* seeded fault: only the first phase is asked
incompressibleFirstOnly(pm) ==
    IF pm = <<>> THEN TRUE ELSE pm[1].incompressible

RECURSIVE incompressibleLoop(_, _)
incompressibleLoop(pm, phasei) ==
    IF phasei > Len(pm) THEN TRUE
    ELSE IF ~pm[phasei].incompressible THEN FALSE
    ELSE incompressibleLoop(pm, phasei + 1)

incompressible(pm) == incompressibleLoop(pm, 1)

\* one pass of the loop of correctContinuityError: the source handed to the
\* phase at slot movingPhasei of the moving view
\* seeded fault: dmdts is addressed by the slot of the moving view
contSourceByMovingIndex(pm, mv, movingPhasei, applies, fv, dm) ==
    (IF applies[mv[movingPhasei]] THEN fv[mv[movingPhasei]] ELSE 0)
    + (IF dm[movingPhasei] # <<>> THEN dm[movingPhasei][1] ELSE 0)

contSource(pm, mv, movingPhasei, applies, fv, dm) ==
    LET phase == pm[mv[movingPhasei]]
    IN  (IF applies[mv[movingPhasei]] THEN fv[mv[movingPhasei]] ELSE 0)
        + (IF dm[phase.index] # <<>> THEN dm[phase.index][1] ELSE 0)

RECURSIVE contLoop(_, _, _, _, _, _, _)
contLoop(pm, mv, movingPhasei, applies, fv, dm, log) ==
    IF movingPhasei > Len(mv) THEN log
    ELSE contLoop(pm, mv, movingPhasei + 1, applies, fv, dm,
                  Append(log, [phase |-> mv[movingPhasei],
                               source |-> contSource(pm, mv, movingPhasei,
                                                     applies, fv, dm)]))

correctContinuityError(pm, mv, applies, fv, dm) ==
    contLoop(pm, mv, 1, applies, fv, dm, <<>>)

----------------------------------------------------------------------------
(* The constructor, step by step *)

done == pc > Len(ctorSequence)

aborted == failedKey # <<>>

AtStep(s) == ~done /\ ~aborted /\ ctorSequence[pc] = s

Completed(s) ==
    /\ pc' = pc + 1
    /\ ctorLog' = Append(ctorLog, s)

Init ==
    /\ pc = 1
    /\ ctorLog = <<>>
    /\ phaseModels_ = <<>>
    /\ movingPhaseModels_ = <<>>
    /\ stationaryPhaseModels_ = <<>>
    /\ anisothermalPhaseModels_ = <<>>
    /\ multiComponentPhaseModels_ = <<>>
    /\ phi_ = <<>>
    /\ dpdt_ = <<>>
    /\ blendingMethods_ = {}
    /\ phasePairs_ = {}
    /\ surfaceTensionModels_ = {}
    /\ aspectRatioModels_ = {}
    /\ requested = <<>>
    /\ failedKey = <<>>
    /\ ret = [op |-> "none"]

\* phaseModels_(lookup("phases"), phaseModel::iNew(*this))
ReadPhases(PL) ==
    /\ AtStep("phases")
    /\ \E pm \in PL : phaseModels_' = pm
    /\ Completed("phases")
    /\ UNCHANGED <<views, phi_, dpdt_, blendingMethods_, tables, ret>>

\* phi_(calcPhi(phaseModels_))
CalcPhi(FD) ==
    /\ AtStep("phi")
    /\ \E fields \in [1..Len(phaseModels_) -> FD] :
         /\ phi_' = <<calcPhi(fields)>>
         /\ ret' = [op |-> "calcPhi", fields |-> fields]
    /\ Completed("phi")
    /\ UNCHANGED <<phaseModels_, views, dpdt_, blendingMethods_, tables>>

\* dpdt_(..., dimensionedScalar(dimPressure/dimTime, 0))
InitDpdt ==
    /\ AtStep("dpdt")
    /\ dpdt_' = <<0>>
    /\ Completed("dpdt")
    /\ UNCHANGED <<phaseModels_, views, phi_, blendingMethods_, tables, ret>>

\* // Groupings
ClassifyPhases ==
    /\ AtStep("groupings")
    /\ LET g == Groupings(phaseModels_)
       IN  /\ movingPhaseModels_' = g.moving
           /\ stationaryPhaseModels_' = g.stationary
           /\ anisothermalPhaseModels_' = g.anisothermal
           /\ multiComponentPhaseModels_' = g.multiComponent
    /\ Completed("groupings")
    /\ UNCHANGED <<phaseModels_, phi_, dpdt_, blendingMethods_, tables, ret>>

\* // Blending methods
BuildBlendingMethods ==
    /\ AtStep("blending")
    /\ \E names \in SUBSET {"default"} : blendingMethods_' = names
    /\ Completed("blending")
    /\ UNCHANGED <<phaseModels_, views, phi_, dpdt_, tables, ret>>

\* generatePairsAndSubModels("surfaceTension", surfaceTensionModels_)
SurfaceTensionSubModels(DD) ==
    /\ AtStep("surfaceTension")
    /\ \E modelDicts \in DD :
         LET r == generatePairsAndSubModels(phaseModels_, phasePairs_,
                      requested, surfaceTensionModels_, modelDicts)
         IN  /\ phasePairs_' = r.pairs
             /\ requested' = r.requested
             /\ failedKey' = r.failed
             /\ surfaceTensionModels_' = r.models
             /\ ret' = [op |-> "generatePairsAndSubModels",
                        modelDicts |-> modelDicts]
             /\ IF r.failed = <<>> THEN Completed("surfaceTension")
                ELSE UNCHANGED <<pc, ctorLog>>
    /\ UNCHANGED <<phaseModels_, views, phi_, dpdt_, blendingMethods_,
                   aspectRatioModels_>>

\* generatePairsAndSubModels("aspectRatio", aspectRatioModels_)
AspectRatioSubModels(DD) ==
    /\ AtStep("aspectRatio")
    /\ \E modelDicts \in DD :
         LET r == generatePairsAndSubModels(phaseModels_, phasePairs_,
                      requested, aspectRatioModels_, modelDicts)
         IN  /\ phasePairs_' = r.pairs
             /\ requested' = r.requested
             /\ failedKey' = r.failed
             /\ aspectRatioModels_' = r.models
             /\ ret' = [op |-> "generatePairsAndSubModels",
                        modelDicts |-> modelDicts]
             /\ IF r.failed = <<>> THEN Completed("aspectRatio")
                ELSE UNCHANGED <<pc, ctorLog>>
    /\ UNCHANGED <<phaseModels_, views, phi_, dpdt_, blendingMethods_,
                   surfaceTensionModels_>>

\* the body of correctKinematics() on the pressure fields p
DoCorrectKinematics(PD) ==
    \E p \in [1..Len(phaseModels_) -> PD] :
       LET r == correctKinematics(phaseModels_, p, dpdt_)
       IN  /\ dpdt_' = r.dpdt
           /\ ret' = [op |-> "correctKinematics", p |-> p, log |-> r.log,
                      before |-> dpdt_]

\* // Update motion fields
CtorCorrectKinematics(PD) ==
    /\ AtStep("kinematics")
    /\ DoCorrectKinematics(PD)
    /\ Completed("kinematics")
    /\ UNCHANGED <<phaseModels_, views, phi_, blendingMethods_, tables>>

Constructor(PL, FD, DD, PD) ==
    \/ ReadPhases(PL)
    \/ CalcPhi(FD)
    \/ InitDpdt
    \/ ClassifyPhases
    \/ BuildBlendingMethods
    \/ SurfaceTensionSubModels(DD)
    \/ AspectRatioSubModels(DD)
    \/ CtorCorrectKinematics(PD)

----------------------------------------------------------------------------
(* Calls on the constructed system *)

Query == UNCHANGED <<pc, ctorLog, phaseModels_, views, phi_, dpdt_,
                     blendingMethods_, tables>>

\* no call in progress: the caller has dropped the last call's result
idle == done /\ ret.op = "none"

\* the caller drops the result of the call (a tmp<> going out of scope)
Return ==
    /\ done
    /\ ret.op # "none"
    /\ ret' = [op |-> "none"]
    /\ Query

CorrectKinematics(PD) ==
    /\ idle
    /\ DoCorrectKinematics(PD)
    /\ UNCHANGED <<pc, ctorLog, phaseModels_, views, phi_, blendingMethods_,
                   tables>>

\* the fields of one phase: its fraction and the quantity q
Fld(a, q, v) == [x \in {"alpha", q} |-> IF x = "alpha" THEN a ELSE v]

\* the fields of all phases; the fields of a stationary phase are held fixed
FieldsOf(pm, q, V) ==
    {f \in [1..Len(pm) -> {Fld(a, q, v) : a \in AlphaVals, v \in V}] :
       \A i \in 1..Len(pm) :
          pm[i].stationary => f[i] = Fld(0, q, CHOOSE v \in V : TRUE)}

\* what a division produces: a value, or on a zero denominator a non-finite
\* number or the floating-point trap
Outcomes(r) == IF r.d = 0 THEN {"nonfinite", "sigFpe"} ELSE {"value"}

\* rho() const; callers must not call it without a moving phase
CallRho ==
    /\ idle
    /\ movingPhaseModels_ # <<>>
    /\ \E fld \in FieldsOf(phaseModels_, "rho", RhoVals) :
         LET r == rho(movingPhaseModels_, stationaryPhaseModels_, fld)
         IN  \E o \in Outcomes(r) :
                ret' = [op |-> "rho", fld |-> fld, result |-> r, outcome |-> o]
    /\ Query

\* U() const; callers must not call it without a moving phase
CallU ==
    /\ idle
    /\ movingPhaseModels_ # <<>>
    /\ \E fld \in FieldsOf(phaseModels_, "U", UVals) :
         LET r == U(movingPhaseModels_, stationaryPhaseModels_, fld)
         IN  \E o \in Outcomes(r) :
                ret' = [op |-> "U", fld |-> fld, result |-> r, outcome |-> o]
    /\ Query

CallIncompressible ==
    /\ idle
    /\ ret' = [op |-> "incompressible", result |-> incompressible(phaseModels_)]
    /\ Query

\* correctContinuityError(); dmdts() is virtual: the default, or a derived
\* system's list with any of its slots set
CorrectContinuityError ==
    /\ idle
    /\ \E derived \in BOOLEAN,
          applies \in [1..Len(phaseModels_) -> BOOLEAN],
          fv \in [1..Len(phaseModels_) -> FvVals] :
         \E dm \in IF derived
                   THEN [1..Len(phaseModels_) ->
                           {<<>>} \cup {<<v>> : v \in DmdtVals}]
                   ELSE {dmdts(phaseModels_)} :
            ret' = [op |-> "correctContinuityError", derived |-> derived,
                    applies |-> applies, fv |-> fv, dm |-> dm,
                    log |-> correctContinuityError(phaseModels_,
                               movingPhaseModels_, applies, fv, dm)]
    /\ Query

CallSigma ==
    /\ idle
    /\ \E key \in Keys(Names) :
         ret' = [op |-> "sigma", key |-> key,
                 field |-> sigma(surfaceTensionModels_, key)]
    /\ Query

CallSigmaPatch ==
    /\ idle
    /\ \E key \in Keys(Names), patchi \in 1..Len(PatchSizes) :
         ret' = [op |-> "sigmaPatch", key |-> key, patchi |-> patchi,
                 field |-> sigmaPatch(surfaceTensionModels_, key, patchi)]
    /\ Query

CallE ==
    /\ idle
    /\ \E key \in Keys(Names) :
         ret' = [op |-> "E", key |-> key,
                 field |-> E(aspectRatioModels_, key)]
    /\ Query

----------------------------------------------------------------------------
(* Specifications *)

CtorFaces ==
    {[own |-> 4, nei |-> 6, phi |-> 2], [own |-> 6, nei |-> 0, phi |-> -1]}

QueryFaces == {[own |-> 4, nei |-> 6, phi |-> 2]}

QueryP == {[cur |-> 105, old |-> 100]}

\* construction of systems of every classification, then the correction calls
NextCtor ==
    \/ Constructor(CtorPhaseLists, CtorFaces, NoDicts, QueryP)
    \/ CorrectKinematics(QueryP)
    \/ Return

SpecCtor == Init /\ [][NextCtor]_vars

\* construction from pair dictionaries, then the per-pair queries
NextPairs ==
    \/ Constructor(PairPhaseLists, QueryFaces, DictTables(Names), QueryP)
    \/ CallSigma
    \/ CallSigmaPatch
    \/ CallE
    \/ Return

SpecPairs == Init /\ [][NextPairs]_vars

\* the mixture queries and the continuity correction
NextMix ==
    \/ Constructor(MixPhaseLists, QueryFaces, NoDicts, QueryP)
    \/ CallRho
    \/ CallU
    \/ CorrectContinuityError
    \/ Return

SpecMix == Init /\ [][NextMix]_vars

\* the kinematics correction and the compressibility predicate
Next ==
    \/ Constructor(QueryPhaseLists, QueryFaces, NoDicts, PFields)
    \/ CorrectKinematics(PFields)
    \/ CallIncompressible
    \/ Return

Spec == Init /\ [][Next]_vars

----------------------------------------------------------------------------
(* Claims *)

N == Len(phaseModels_)

IsPrefix(s, t) == Len(s) <= Len(t) /\ \A i \in 1..Len(s) : s[i] = t[i]

InLog(step) == \E i \in 1..Len(ctorLog) : ctorLog[i] = step

\* the positions of a log of keys that hold the first request for their key
FirstRequests(log) ==
    {i \in 1..Len(log) : \A j \in 1..(i - 1) : ~KeyEq(log[j], log[i])}

\* the registry that creating one Pair at each first request, and nothing
\* else, leaves: Pairs numbered in the order of their creation
PairsOfFirstRequests(log) ==
    {[key |-> log[i],
      pair |-> [id |-> Cardinality({j \in FirstRequests(log) : j <= i}),
                ordered |-> log[i].ordered,
                phase1 |-> log[i].first,
                phase2 |-> log[i].second]] : i \in FirstRequests(log)}

\* C1: after any sequence of generatePairs calls the registry holds exactly
\* one Pair for every distinct key requested, and the Pair of a key is the
\* one created at its first request: a later request for the key neither
\* replaces nor duplicates it.
C1_PairRegistrationIdempotent ==
    /\ \A i \in 1..Len(requested) :
          Cardinality({e \in phasePairs_ : KeyEq(e.key, requested[i])}) = 1
    /\ Cardinality(phasePairs_) = Cardinality(FirstRequests(requested))
    /\ phasePairs_ = PairsOfFirstRequests(requested)

C1_Witness ==
    /\ done
    /\ \E i, j \in 1..Len(requested) :
          i < j /\ KeyEq(requested[i], requested[j])
                /\ requested[i] # requested[j]

KnownPhase(name) == \E i \in 1..N : phaseModels_[i].name = name

KnownKey(key) == KnownPhase(key.first) /\ KnownPhase(key.second)

\* C4: a pair key naming a phase that is not in the phase list, as first or
\* as second identity, raises the fatal error: no Pair is inserted for the
\* key and the constructor goes no further.
C4_UnknownPhaseAborts ==
    /\ \A e \in phasePairs_ :
          KnownKey(e.key) /\ e.pair.phase1 \in 1..N /\ e.pair.phase2 \in 1..N
    /\ \A i \in 1..Len(requested) : KnownKey(requested[i])
    /\ ret.op = "generatePairsAndSubModels" =>
          (aborted <=> \E i \in 1..Len(ret.modelDicts) :
                          ~KnownKey(ret.modelDicts[i].key))
    /\ aborted =>
          /\ ~KnownKey(failedKey[1])
          /\ ~found(phasePairs_, failedKey[1])
          /\ ~done
          /\ ~InLog("kinematics")
          /\ ~ENABLED NextPairs

C4_Witness ==
    /\ aborted
    /\ phasePairs_ # {}
    /\ KnownPhase(failedKey[1].first)
    /\ ~KnownPhase(failedKey[1].second)

ConstantField(f, dom, v) == DOMAIN f = dom /\ \A c \in dom : f[c] = v

DelegatesOrDefault(models, key, f, dom, default) ==
    IF \E e \in models : KeyEq(e.key, key)
    THEN \A e \in models :
            KeyEq(e.key, key) => ConstantField(f, dom, e.model.value)
    ELSE ConstantField(f, dom, default)

\* C3: sigma(key), sigma(key, patchi) and E(key) return the configured
\* model's field when the table holds a model for the key, and otherwise a
\* field that is 0 everywhere (surface tension) or 1 everywhere (aspect
\* ratio); the tables hold models for configured keys only.
C3_MissingModelDefaults ==
    /\ ret.op = "sigma" =>
          DelegatesOrDefault(surfaceTensionModels_, ret.key, ret.field,
                             1..NCells, 0)
    /\ ret.op = "sigmaPatch" =>
          DelegatesOrDefault(surfaceTensionModels_, ret.key, ret.field,
                             1..PatchSizes[ret.patchi], 0)
    /\ ret.op = "E" =>
          DelegatesOrDefault(aspectRatioModels_, ret.key, ret.field,
                             1..NCells, 1)
    /\ \A e \in surfaceTensionModels_ \cup aspectRatioModels_ :
          \E i \in 1..Len(requested) : requested[i] = e.key

C3_Witness ==
    /\ ret.op = "E"
    /\ ~found(aspectRatioModels_, ret.key)
    /\ found(surfaceTensionModels_, ret.key)
    /\ \A c \in 1..NCells : ret.field[c] = 1

Moving == {i \in 1..N : ~phaseModels_[i].stationary}

Stationary == {i \in 1..N : phaseModels_[i].stationary}

\* the sum over the moving phases among the first n phases of
\* (fraction x quantity q), and of the fractions, both in units of 1/Unit
RECURSIVE MovingTotal(_, _, _)
MovingTotal(fld, q, n) ==
    IF n = 0 THEN 0
    ELSE MovingTotal(fld, q, n - 1)
         + (IF n \in Moving THEN fld[n].alpha * fld[n][q] ELSE 0)

RECURSIVE MovingFraction(_, _)
MovingFraction(fld, n) ==
    IF n = 0 THEN 0
    ELSE MovingFraction(fld, n - 1) + (IF n \in Moving THEN fld[n].alpha ELSE 0)

\* the rational r is num/den
IsRatio(r, num, den) == r.d # 0 /\ r.n * den = num * r.d

MixtureOf(r, fld, q) ==
    LET total == MovingTotal(fld, q, N)
        fraction == MovingFraction(fld, N)
    IN  /\ Stationary = {} => IsRatio(r, total, Unit)
        /\ Stationary # {} /\ fraction # 0 => IsRatio(r, total, fraction)
        /\ Stationary # {} /\ fraction = 0 => r.d = 0
        /\ \A i \in Moving :
              Moving = {i} /\ Stationary # {} /\ fld[i].alpha # 0
                 => IsRatio(r, fld[i][q], 1)

C8_DenominatorKeptFromZero ==
    ret.op \in {"rho", "U"} /\ stationaryPhaseModels_ # <<>>
       => ret.result.d # 0 /\ ret.outcome = "value"

\* the source correctContinuityError hands to phase i
SourceOf(i, applies, fv, dm) ==
    (IF applies[i] THEN fv[i] ELSE 0)
    + (IF dm[phaseModels_[i].index] # <<>> THEN dm[phaseModels_[i].index][1]
       ELSE 0)

\* C5: correctContinuityError() calls the continuity correction of every
\* moving phase once, in the order of the phase list, and of no stationary
\* phase; the source handed over is the injected source if it applies to the
\* phase plus the mass-transfer rate if dmdts() has the slot of the phase's
\* own index set; with the default dmdts() no rate is added.
C5_ContinuitySources ==
    ret.op = "correctContinuityError" =>
       /\ Len(ret.log) = Cardinality(Moving)
       /\ \A k \in 1..Len(ret.log) :
             /\ ret.log[k].phase \in Moving
             /\ Cardinality({i \in Moving : i <= ret.log[k].phase}) = k
             /\ ret.log[k].source =
                   SourceOf(ret.log[k].phase, ret.applies, ret.fv, ret.dm)
             /\ ~ret.derived =>
                   ret.log[k].source =
                      (IF ret.applies[ret.log[k].phase]
                       THEN ret.fv[ret.log[k].phase] ELSE 0)

C5_Witness ==
    /\ ret.op = "correctContinuityError"
    /\ ret.derived
    /\ Stationary # {}
    /\ \E k \in 1..Len(ret.log) :
          /\ ret.log[k].phase # k
          /\ ret.dm[k] # <<>>
          /\ ret.dm[ret.log[k].phase] = <<>>
          /\ ret.applies[ret.log[k].phase]
          /\ ret.log[k].source = ret.fv[ret.log[k].phase]

AnyDpdt == \E i \in 1..N : phaseModels_[i].dpdt

\* C6: correctKinematics() calls the kinematics hook of every phase once, in
\* the order of the phase list, whatever earlier phases requested; it then
\* recomputes dpdt_ once, from the first phase's pressure, exactly if some
\* phase requests it, and otherwise leaves dpdt_ as it was: zero, as
\* initialised, while no phase requests the update.
C6_KinematicsAndDpdt ==
    /\ ret.op = "correctKinematics" =>
          /\ \A i \in 1..N :
                ret.log[i] = [call |-> "correctKinematics", phase |-> i]
          /\ AnyDpdt =>
                /\ Len(ret.log) = N + 1
                /\ ret.log[N + 1] = [call |-> "ddt", phase |-> 1]
                /\ dpdt_ = <<ret.p[1].cur - ret.p[1].old>>
          /\ ~AnyDpdt => Len(ret.log) = N /\ dpdt_ = ret.before
    /\ InLog("dpdt") /\ ~AnyDpdt => dpdt_ = <<0>>

C6_Witness ==
    /\ ret.op = "correctKinematics"
    /\ done
    /\ N > 1
    /\ phaseModels_[1].dpdt
    /\ ret.p[1].cur # ret.p[N].cur
    /\ ret.before # dpdt_
    /\ Len(ret.log) = N + 1

\* C7: incompressible() is true exactly if every phase of the phase list,
\* moving or stationary, reports incompressible; it is true of an empty list.
C7_IncompressibleIffAll ==
    /\ ret.op = "incompressible" =>
          ret.result = (\A i \in 1..N : phaseModels_[i].incompressible)
    /\ incompressible(<<>>)

C7_Witness ==
    /\ ret.op = "incompressible"
    /\ ~ret.result
    /\ phaseModels_[1].incompressible
    /\ \E i \in Stationary : ~phaseModels_[i].incompressible

\* view lists, in the order of the phase list and without an unset slot,
\* exactly the phases of the set S
ExactFilter(view, S) ==
    /\ \A k \in 1..Len(view) : view[k] \in S
    /\ \A i \in S : \E k \in 1..Len(view) : view[k] = i
    /\ \A k, l \in 1..Len(view) : k < l => view[k] < view[l]
    /\ Len(view) = Cardinality(S)

InView(view, i) == \E k \in 1..Len(view) : view[k] = i

\* C9: once the phases are classified, and ever after, each view is the exact
\* filter of the phase list (moving: not stationary; stationary; anisothermal:
\* not isothermal; multicomponent: not pure), in the order of the phase list
\* and with every slot set; every phase is in exactly one of the moving and
\* the stationary view.
C9_ViewsAreExactFilters ==
    InLog("groupings") =>
       /\ ExactFilter(movingPhaseModels_, Moving)
       /\ ExactFilter(stationaryPhaseModels_, Stationary)
       /\ ExactFilter(anisothermalPhaseModels_,
                      {i \in 1..N : ~phaseModels_[i].isothermal})
       /\ ExactFilter(multiComponentPhaseModels_,
                      {i \in 1..N : ~phaseModels_[i].pure})
       /\ \A i \in 1..N :
             InView(movingPhaseModels_, i) # InView(stationaryPhaseModels_, i)

C9_Witness ==
    /\ done
    /\ ret.op = "none"
    /\ N > 1
    /\ movingPhaseModels_ = <<N>>
    /\ Len(stationaryPhaseModels_) = N - 1
    /\ anisothermalPhaseModels_ = <<1>>
    /\ multiComponentPhaseModels_ = <<N>>

\* the order of construction as the specification states it, and as amended
StatedOrder ==
    <<"phases", "groupings", "phi", "dpdt", "blending", "surfaceTension",
      "aspectRatio", "kinematics">>

AmendedOrder ==
    <<"phases", "phi", "dpdt", "groupings", "blending", "surfaceTension",
      "aspectRatio", "kinematics">>

\* the sum over the first n phases of (own + nei) x phi: twice the
\* interpolated fraction times the flux, in units of 1/Unit
RECURSIVE FluxTotal(_, _)
FluxTotal(fields, n) ==
    IF n = 0 THEN 0
    ELSE FluxTotal(fields, n - 1)
         + (fields[n].own + fields[n].nei) * fields[n].phi

\* what each step has done when it is logged, and not before
StepEffects ==
    /\ InLog("phases") <=> phaseModels_ # <<>>
    /\ InLog("phi") <=> phi_ # <<>>
    /\ ret.op = "calcPhi" =>
          IsRatio(phi_[1], FluxTotal(ret.fields, N), 2 * Unit)
    /\ InLog("dpdt") <=> dpdt_ # <<>>
    /\ InLog("dpdt") /\ ~InLog("kinematics") => dpdt_ = <<0>>
    /\ InLog("groupings") <=>
          Len(movingPhaseModels_) + Len(stationaryPhaseModels_) > 0
    /\ ~InLog("groupings") =>
          anisothermalPhaseModels_ = <<>> /\ multiComponentPhaseModels_ = <<>>
    /\ ~InLog("blending") => blendingMethods_ = {}
    /\ ~InLog("surfaceTension") => surfaceTensionModels_ = {}
    /\ ~InLog("aspectRatio") => aspectRatioModels_ = {}

\* C10 as stated: the phases are classified into the views before the
\* initial flux is computed and the dpdt field is initialised.
C10_StatedOrder == IsPrefix(ctorLog, StatedOrder)

\* C10, amended: construction reads and instantiates the phases, computes
\* the initial mixture flux as the sum over all phases of (interpolated
\* fraction x phase flux), initialises dpdt to zero, classifies the phases
\* into the four views, builds the blending methods, generates pairs and
\* sub-models for each section and finally runs one kinematics-correction
\* pass, each step completing before the next begins.
C10_ConstructionOrder ==
    /\ IsPrefix(ctorLog, AmendedOrder)
    /\ done <=> ctorLog = AmendedOrder
    /\ StepEffects

C10_Witness ==
    /\ done
    /\ ctorLog = AmendedOrder
    /\ N > 1
    /\ stationaryPhaseModels_ # <<>>
    /\ movingPhaseModels_ # <<>>
    /\ blendingMethods_ # {}
    /\ ret.op = "correctKinematics"

====
